---- MODULE Spec2Model ----
(***************************************************************************)
(* A model of GRN.py (flyGeneRefNet): the Jaccard similarity matrix of     *)
(* makeJaccardMat and the two-phase clustering / label propagation of      *)
(* clustNetwork_Adj.                                                       *)
(*                                                                         *)
(* Conventions.  Python indices are kept 0-based: vectors and matrices are *)
(* functions over 0..n-1.  The label vector y of clustNetwork_Adj is a     *)
(* Python list that first holds the raw integer cluster ids and is then    *)
(* overwritten, entry by entry, with strings; a raw id c is written here   *)
(* as the string RawId(c), which is no gene symbol and is not 'none', so   *)
(* that the comparison i==y[j] of the source is the comparison             *)
(* y[j] = RawId(i).  Real numbers are kept exact: a percentile is held     *)
(* multiplied by 1000, a Jaccard index as the pair <<numerator,            *)
(* denominator>>.  SpectralClustering is not imported by GRN.py; the model *)
(* takes it to be the external clustering capability (sklearn) the module  *)
(* header names, whose fit_predict returns an arbitrary labelling.         *)
(***************************************************************************)
EXTENDS Integers, Sequences, FiniteSets, TLC

VARIABLES
  pc,        \* position in the function being run
  \* ---- clustNetwork_Adj(A,TOM,names,thr,k)
  A,         \* parameter A: the adjacency (similarity) matrix
  TOM,       \* parameter TOM: the topological overlap matrix
  thr,       \* parameter thr
  k,         \* parameter k
  N,         \* degree vector, line 140
  cutoff,    \* lower percentile cutoff (x1000), line 141
  upper,     \* np.percentile(N,99.9) (x1000), line 142
  topnodes,  \* boolean mask of the selected nodes, line 142
  A2,        \* the filtered matrix handed to fit_predict, line 144
  yarr,      \* np.array(y): the raw cluster ids, line 151
  yl,        \* the list of cluster names, line 149
  y,         \* the label vector, lines 146-189
  n0,        \* line 166 / 188
  del0,      \* line 167 / 187
  i,         \* the node index of the for loop at line 170
  \* ---- makeJaccardMat(df)
  df,        \* the association table: a sequence of <<symb, pubid>> rows
  ugenes,    \* df['symb'].unique(), line 96
  genedict,  \* gene -> set of pubids, lines 97-100
  Ajac,      \* the matrix A of makeJaccardMat, line 101
  ji,        \* loop index i of line 102
  jj         \* loop index j of line 103

cvars == <<A, TOM, thr, k, N, cutoff, upper, topnodes, A2, yarr, yl, y, n0, del0, i>>
jvars == <<df, ugenes, genedict, Ajac, ji, jj>>
vars == <<pc, A, TOM, thr, k, N, cutoff, upper, topnodes, A2, yarr, yl, y, n0, del0, i,
          df, ugenes, genedict, Ajac, ji, jj>>

(***************************************************************************)
(* Bounds and input sets                                                   *)
(***************************************************************************)
\* the largest entry of TOM
MaxTOM == 1
\* the largest number of rows of the association table
MaxRows == 4

\* parameter names of clustNetwork_Adj: one gene symbol per node
names == [x \in 0..3 |-> <<"g1", "g2", "g3", "g4">>[x + 1]]
n == Cardinality(DOMAIN names)
Nodes == 0..(n - 1)
\* values of the parameter thr and of the parameter k.  With four nodes the
\* default thr=15 selects no node whatever A is (no degree lies strictly
\* between the 85th and the 99.9th percentile); thr=100 gives both cases, a
\* selection that is empty and one that is not.  Two clusters can be named
\* differently only from k=3 on, the highest-degree node never being selected.
ThrValues == {100}
KValues == {3}
\* the gene symbols and publication ids of the association table
Symbs == {"g1", "g2", "g3"}
PubIds == {"p1", "p2"}

none == "none"
RawId(c) == <<"#0", "#1", "#2", "#3", "#4">>[c + 1]

Range(f) == {f[x] : x \in DOMAIN f}
B(t) == IF t THEN 1 ELSE 0

\* symmetric zero-diagonal matrices over Nodes with entries in 0..m
SymMatrices(m) ==
  {M \in [Nodes -> [Nodes -> 0..m]] :
     \A a \in Nodes : M[a][a] = 0 /\ \A b \in Nodes : M[a][b] = M[b][a]}
\* the matrix whose only nonzero entries are w at (a,b) and (b,a)
LinkMatrix(a, b, w) ==
  [r \in Nodes |-> [c \in Nodes |-> IF {r, c} = {a, b} THEN w ELSE 0]]
\* the topological overlap matrices tried: no overlap at all, or one pair of
\* nodes with overlap 1..MaxTOM
TOMs ==
  {LinkMatrix(0, 0, 0)} \cup
  {LinkMatrix(p[1], p[2], w) :
     p \in {q \in Nodes \X Nodes : q[1] < q[2]}, w \in 1..MaxTOM}

(***************************************************************************)
(* clustNetwork_Adj: top-degree selection (lines 140-144)                  *)
(***************************************************************************)
\* N=(A>0).sum(axis=0): the column count of positive entries
Degree(M) == [c \in Nodes |-> Cardinality({r \in Nodes : M[r][c] > 0})]

\* the r-th smallest entry of Nv (r from 0)
SortedAt(Nv, r) ==
  CHOOSE v \in Range(Nv) :
    /\ Cardinality({x \in DOMAIN Nv : Nv[x] < v}) <= r
    /\ r < Cardinality({x \in DOMAIN Nv : Nv[x] <= v})

\* np.percentile(Nv, qm/10), times 1000: linear interpolation between the two
\* order statistics around position (len-1)*q/100, in exact arithmetic
Percentile(Nv, qm) ==
  LET len == Cardinality(DOMAIN Nv)
      pos == (len - 1) * qm
      lo == pos \div 1000
      fr == pos % 1000
      hi == IF lo + 1 < len THEN lo + 1 ELSE lo
  IN  1000 * SortedAt(Nv, lo) + fr * (SortedAt(Nv, hi) - SortedAt(Nv, lo))

\* variant of TopNode: the lower comparison written >= instead of >
TopNodeInclusive(d, lower, up) == (1000 * d >= lower) /\ (1000 * d < up)

\* (N>cutoff) * (N<np.percentile(N,99.9)) for one node; cutoffs are x1000
TopNode(d, lower, up) == (1000 * d > lower) /\ (1000 * d < up)

\* A*1.0*topnodes.reshape(n,1)*1.0*topnodes.reshape(1,n)
Filtered(M, top) == [r \in Nodes |-> [c \in Nodes |-> M[r][c] * B(top[r]) * B(top[c])]]

Select ==
  /\ pc = "select"
  /\ N' = Degree(A)
  /\ cutoff' = Percentile(Degree(A), (100 - thr) * 10)
  /\ upper' = Percentile(Degree(A), 999)
  /\ topnodes' = [x \in Nodes |-> TopNode(N'[x], cutoff', upper')]
  /\ A2' = Filtered(A, topnodes')
  /\ pc' = "fit"
  /\ UNCHANGED <<A, TOM, thr, k, yarr, yl, y, n0, del0, i>>
  /\ UNCHANGED jvars

(***************************************************************************)
(* clustNetwork_Adj: the clustering capability (lines 145-146, 150-151)    *)
(***************************************************************************)
\* sc.fit_predict(A2): external; any labelling with ids in 0..k-1
FitPredict ==
  /\ pc = "fit"
  /\ \E lab \in [Nodes -> 0..(k - 1)] :
       /\ yarr' = lab
       /\ y' = [x \in Nodes |-> RawId(lab[x])]
  /\ yl' = <<>>
  /\ pc' = "relabel"
  /\ UNCHANGED <<A, TOM, thr, k, N, cutoff, upper, topnodes, A2, n0, del0, i>>
  /\ UNCHANGED jvars

(***************************************************************************)
(* clustNetwork_Adj: labels as names of top genes (lines 152-163)          *)
(***************************************************************************)
\* np.argmax(v): the first index of the largest entry
ArgMax(v) ==
  CHOOSE x \in DOMAIN v :
    /\ \A z \in DOMAIN v : v[z] <= v[x]
    /\ \A z \in DOMAIN v : z < x => v[z] < v[x]

\* np.argmax(N*(yarr==c))
TopInd(Nv, ya, c) == ArgMax([x \in Nodes |-> Nv[x] * B(ya[x] = c)])

\* the name given to cluster c (lines 154-155, 159-160)
ClusterName(Nv, ya, top, c) ==
  IF top[TopInd(Nv, ya, c)] THEN names[TopInd(Nv, ya, c)] ELSE none

\* one iteration of the loop at line 152: every entry still holding raw id c
\* is overwritten with the name of cluster c
RelabelOne(yv, Nv, ya, top, c) ==
  [x \in Nodes |-> IF yv[x] = RawId(c) THEN ClusterName(Nv, ya, top, c) ELSE yv[x]]

RECURSIVE RelabelUpTo(_, _, _, _, _)
\* the label vector after iterations 0..c-1 of the loop at line 152
RelabelUpTo(yv, Nv, ya, top, c) ==
  IF c = 0 THEN yv
  ELSE RelabelOne(RelabelUpTo(yv, Nv, ya, top, c - 1), Nv, ya, top, c - 1)

Relabel ==
  /\ pc = "relabel"
  /\ y' = RelabelUpTo(y, N, yarr, topnodes, k)
  /\ yl' = [c \in 1..k |-> ClusterName(N, yarr, topnodes, c - 1)]
  /\ pc' = "count"
  /\ UNCHANGED <<A, TOM, thr, k, N, cutoff, upper, topnodes, A2, yarr, n0, del0, i>>
  /\ UNCHANGED jvars

(***************************************************************************)
(* clustNetwork_Adj: assigning the rest of the labels (lines 166-189)      *)
(***************************************************************************)
\* y.count('none')
CountNone(yv) == Cardinality({x \in Nodes : yv[x] = none})

StartProp ==
  /\ pc = "count"
  /\ n0' = CountNone(y)
  /\ del0' = CountNone(y)
  /\ pc' = "while"
  /\ UNCHANGED <<A, TOM, thr, k, N, cutoff, upper, topnodes, A2, yarr, yl, y, i>>
  /\ UNCHANGED jvars

\* while del0: (line 168); falling out of the loop reaches return y (line 189)
WhileTest ==
  /\ pc = "while"
  /\ IF del0 # 0 THEN pc' = "for" /\ i' = 0 ELSE pc' = "done" /\ i' = i
  /\ UNCHANGED <<A, TOM, thr, k, N, cutoff, upper, topnodes, A2, yarr, yl, y, n0, del0>>
  /\ UNCHANGED jvars

\* the orders of the nodes: the arrays an argsort over n entries can return
Orders == {p \in [Nodes -> Nodes] : \A a, b \in Nodes : a # b => p[a] # p[b]}

\* variant of ArgsortDesc: np.argsort(row), the minus sign forgotten
ArgsortAsc(row) ==
  {p \in Orders : \A a, b \in Nodes : a < b => row[p[a]] <= row[p[b]]}

\* np.argsort(-row): the orders of the nodes by descending row entry.  The
\* default sort kind is not stable, so the order among equal entries is any.
ArgsortDesc(row) ==
  {p \in Orders : \A a, b \in Nodes : a < b => row[p[a]] >= row[p[b]]}

\* variant of NeedsLabel: the test of line 171 left out
NeedsLabelAlways(yv, x) == TRUE

\* if y[i]=='none': (line 171)
NeedsLabel(yv, x) == yv[x] = none

\* variant of RankingExhausted: the test made at the last index of the ranking
RankingExhaustedAtEnd(b, len) == b >= len - 1

\* if b>len(y): (line 178)
RankingExhausted(b, len) == b > len

RECURSIVE Scan(_, _, _)
\* the loop "while b>=0" of lines 175-185, entered with index b: the label yil
\* it leaves, or err when sortlabs[b] is read with b = len(sortlabs)
Scan(yv, sortlabs, b) ==
  IF b >= n THEN [err |-> TRUE, yil |-> none]
  ELSE LET ltest == yv[sortlabs[b]]
       IN  IF ltest = none
           THEN IF RankingExhausted(b, n) THEN [err |-> FALSE, yil |-> none]
                ELSE Scan(yv, sortlabs, b + 1)
           ELSE [err |-> FALSE, yil |-> ltest]

\* one iteration of the for loop at line 170: sortlabs is any of the orders
\* argsort may return, r what the scan of lines 174-185 leaves for it
ProcessNode ==
  /\ pc = "for"
  /\ i < n
  /\ IF NeedsLabel(y, i)
     THEN \E r \in {Scan(y, sortlabs, 0) : sortlabs \in ArgsortDesc(TOM[i])} :
            IF r.err
            THEN pc' = "error" /\ y' = y /\ i' = i
            ELSE pc' = pc /\ y' = [y EXCEPT ![i] = r.yil] /\ i' = i + 1
     ELSE pc' = pc /\ y' = y /\ i' = i + 1
  /\ UNCHANGED <<A, TOM, thr, k, N, cutoff, upper, topnodes, A2, yarr, yl, n0, del0>>
  /\ UNCHANGED jvars

\* del0=n0-y.count('none') (line 187)
DelNone(prev, cnt) == prev - cnt

\* variant of NewN0: line 188 left out, n0 keeps its value
NewN0Stale(prev, cnt) == prev

\* n0=y.count('none') (line 188)
NewN0(prev, cnt) == cnt

\* the end of one pass of the while loop (lines 187-188)
EndPass ==
  /\ pc = "for"
  /\ i = n
  /\ del0' = DelNone(n0, CountNone(y))
  /\ n0' = NewN0(n0, CountNone(y))
  /\ pc' = "while"
  /\ UNCHANGED <<A, TOM, thr, k, N, cutoff, upper, topnodes, A2, yarr, yl, y, i>>
  /\ UNCHANGED jvars

(***************************************************************************)
(* The call clustNetwork_Adj(A,TOM,names,thr,k)                            *)
(***************************************************************************)
ZeroVec == [x \in Nodes |-> 0]
ZeroMat == [r \in Nodes |-> ZeroVec]

JIdle ==
  /\ df = <<>>
  /\ ugenes = <<>>
  /\ genedict = <<>>
  /\ Ajac = <<>>
  /\ ji = 0
  /\ jj = 0

Init ==
  /\ pc = "select"
  /\ A \in SymMatrices(1)
  /\ TOM \in TOMs
  /\ thr \in ThrValues
  /\ k \in KValues
  /\ N = ZeroVec
  /\ cutoff = 0
  /\ upper = 0
  /\ topnodes = [x \in Nodes |-> FALSE]
  /\ A2 = ZeroMat
  /\ yarr = ZeroVec
  /\ yl = <<>>
  /\ y = [x \in Nodes |-> none]
  /\ n0 = 0
  /\ del0 = 0
  /\ i = 0
  /\ JIdle

Next ==
  \/ Select
  \/ FitPredict
  \/ Relabel
  \/ StartProp
  \/ WhileTest
  \/ ProcessNode
  \/ EndPass

Spec == Init /\ [][Next]_vars

(***************************************************************************)
(* makeJaccardMat(df) (lines 90-108)                                       *)
(***************************************************************************)
RECURSIVE UniqueSeq(_)
\* the values of a sequence in order of first appearance (pandas unique)
UniqueSeq(s) ==
  IF s = <<>> THEN <<>>
  ELSE LET front == UniqueSeq(SubSeq(s, 1, Len(s) - 1))
           last == s[Len(s)]
       IN  IF last \in Range(front) THEN front ELSE Append(front, last)

\* df['symb'].unique(), as a 0-based array
Unique(table) ==
  LET u == UniqueSeq([r \in DOMAIN table |-> table[r][1]])
  IN  [x \in 0..(Len(u) - 1) |-> u[x + 1]]

\* the dictionary built by the groupby loop: symb -> set(pub.pubid.tolist())
GroupPubs(table) ==
  [g \in {table[r][1] : r \in DOMAIN table} |->
     {table[r][2] : r \in {q \in DOMAIN table : table[q][1] = g}}]

\* variant of JaccardIndex: the denominator taken as len(P)+len(Q)
JaccardIndexSum(P, Q) == <<Cardinality(P \cap Q), Cardinality(P) + Cardinality(Q)>>

\* len(set.intersection(P,Q)) / (1.0*len(set.union(P,Q))), as <<num, den>>
JaccardIndex(P, Q) == <<Cardinality(P \cap Q), Cardinality(P \cup Q)>>

\* an entry 0.0 of np.zeros
Zero == <<0, 1>>

JStart ==
  /\ pc = "jstart"
  /\ ugenes' = Unique(df)
  /\ genedict' = GroupPubs(df)
  /\ Ajac' = [r \in DOMAIN ugenes' |-> [c \in DOMAIN ugenes' |-> Zero]]
  /\ ji' = 1
  /\ jj' = 0
  /\ pc' = "jloop"
  /\ UNCHANGED df
  /\ UNCHANGED cvars

\* the body of the inner loop for the pair (ji, jj), jj < ji (lines 104-107)
JCell ==
  /\ pc = "jloop"
  /\ ji < Cardinality(DOMAIN ugenes)
  /\ LET jacind == JaccardIndex(genedict[ugenes[ji]], genedict[ugenes[jj]])
     IN  Ajac' = [Ajac EXCEPT ![ji][jj] = jacind, ![jj][ji] = jacind]
  /\ IF jj + 1 < ji THEN ji' = ji /\ jj' = jj + 1 ELSE ji' = ji + 1 /\ jj' = 0
  /\ pc' = pc
  /\ UNCHANGED <<df, ugenes, genedict>>
  /\ UNCHANGED cvars

\* return A (line 108)
JReturn ==
  /\ pc = "jloop"
  /\ ji >= Cardinality(DOMAIN ugenes)
  /\ pc' = "jdone"
  /\ UNCHANGED jvars
  /\ UNCHANGED cvars

CIdle ==
  /\ A = ZeroMat
  /\ TOM = ZeroMat
  /\ thr = 0
  /\ k = 0
  /\ N = ZeroVec
  /\ cutoff = 0
  /\ upper = 0
  /\ topnodes = [x \in Nodes |-> FALSE]
  /\ A2 = ZeroMat
  /\ yarr = ZeroVec
  /\ yl = <<>>
  /\ y = [x \in Nodes |-> none]
  /\ n0 = 0
  /\ del0 = 0
  /\ i = 0

\* association tables: sequences of at most MaxRows rows, duplicates allowed
Tables == UNION {[1..len -> Symbs \X PubIds] : len \in 0..MaxRows}

InitJ ==
  /\ pc = "jstart"
  /\ df \in Tables
  /\ ugenes = <<>>
  /\ genedict = <<>>
  /\ Ajac = <<>>
  /\ ji = 0
  /\ jj = 0
  /\ CIdle

NextJ ==
  \/ JStart
  \/ JCell
  \/ JReturn

SpecJ == InitJ /\ [][NextJ]_vars

(***************************************************************************)
(* Properties of makeJaccardMat                                            *)
(***************************************************************************)
\* P_g: the publication ids paired with gene g in the table
PubsOf(g) == {df[r][2] : r \in {q \in DOMAIN df : df[q][1] = g}}
\* the first row of the table that names gene g
FirstRow(g) == CHOOSE r \in DOMAIN df : df[r][1] = g /\ \A q \in 1..(r - 1) : df[q][1] # g
\* the fraction f = <<num, den>> equals a/b
FracEq(f, a, b) == f[2] > 0 /\ f[1] * b = a * f[2]

ExampleTable == << <<"g1", "p1">>, <<"g2", "p1">>, <<"g1", "p2">>, <<"g3", "p2">> >>

Selected == {x \in Nodes : topnodes[x]}
\* the nodes carrying raw cluster id c
Members(c) == {x \in Nodes : yarr[x] = c}
\* the label vector of the Cluster Partitioner is in place
Partitioned == pc \in {"count", "while", "for", "done", "error"}
\* node x was left unresolved by the Cluster Partitioner
LeftUnresolved(x) == yl[yarr[x] + 1] = none

\* C8: node i is selected iff lower < N[i] < upper (both strict), N[i] being
\* the number of nonzero similarity entries of node i, and the matrix handed
\* to the clustering capability has A2[i][j] = A[i][j] when i and j are both
\* selected and A2[i][j] = 0 otherwise.
C8_Selection ==
  pc # "select" =>
    /\ \A x \in Nodes : N[x] = Cardinality({r \in Nodes : A[r][x] # 0})
    /\ \A x \in Nodes : topnodes[x] <=> (cutoff < 1000 * N[x] /\ 1000 * N[x] < upper)
    /\ \A r, c \in Nodes :
         A2[r][c] = IF topnodes[r] /\ topnodes[c] THEN A[r][c] ELSE 0

\* selection has run; two selected nodes are adjacent, a selected node has an
\* edge to a node that is not selected, and a node sits exactly on the lower
\* cutoff
C8_Witness ==
  /\ pc = "fit"
  /\ \E r, c \in Selected : A2[r][c] # 0
  /\ \E r \in Selected : \E c \in Nodes \ Selected : A[r][c] # 0 /\ A2[r][c] = 0
  /\ \E x \in Nodes : 1000 * N[x] = cutoff

\* C2: after the raw cluster ids are relabelled, and before any label
\* propagation, every node that is not selected carries 'none', whatever
\* labelling fit_predict returned.
C2_NonSelectedUnresolved ==
  pc = "count" => \A x \in Nodes \ Selected : y[x] = none

\* C9: every raw cluster with a member is relabelled either with the symbol
\* of a selected member of highest degree in the cluster, or, when the
\* highest-degree candidate is not selected, with 'none' for every member; so
\* a cluster is never named after a node outside it.
C9_ClusterNamedAfterMember ==
  pc = "count" =>
    \A c \in 0..(k - 1) :
      Members(c) # {} =>
        \/ \E t \in Members(c) :
             /\ topnodes[t]
             /\ \A m \in Members(c) : N[m] <= N[t]
             /\ \A m \in Members(c) : y[m] = names[t]
        \/ /\ \E t \in Members(c) : ~topnodes[t] /\ \A m \in Members(c) : N[m] <= N[t]
           /\ \A m \in Members(c) : y[m] = none

(***************************************************************************)
(* Properties of clustNetwork_Adj: label propagation                       *)
(***************************************************************************)
Resolved == {x \in Nodes : y[x] # none}
Terminated == pc \in {"done", "error"}

C4_DisconnectedStaysUnresolved ==
  Partitioned =>
    \A x \in Nodes :
      (LeftUnresolved(x) /\ \A z \in Nodes : TOM[x][z] = 0) => y[x] = none

\* C10: when an unresolved node's whole ranking holds no resolved node, the
\* scan ends without error, the node keeps 'none' and the pass goes on.
C10_ExhaustedScanKeepsNone ==
  [][(pc = "for" /\ i \in Nodes /\ y[i] = none /\ Resolved = {}) =>
       (pc' = "for" /\ y' = y /\ i' = i + 1)]_vars

\* C6: when clustNetwork_Adj returns, the label vector has one entry per gene
\* and every entry is a cluster name, none is 'none'.
C6_ReturnedResolved ==
  pc = "done" =>
    /\ DOMAIN y = DOMAIN names
    /\ \A x \in Nodes : y[x] # none /\ y[x] \in Range(names)

\* clustNetwork_Adj has returned, and a node that clustering left unresolved
\* carries a name
C6_Witness ==
  /\ pc = "done"
  /\ \E x \in Nodes : LeftUnresolved(x) /\ y[x] # none

\* C7: propagation never changes an entry that is resolved; in particular a
\* pass over a fully resolved label vector changes nothing.
C7_ResolvedKept ==
  [][(pc \in {"count", "while", "for"}) =>
       (\A x \in Nodes : y[x] # none => y'[x] = y[x])]_vars

\* a whole pass has run over a label vector that was fully resolved when the
\* pass started, part of it by propagation and part of it by clustering
C7_Witness ==
  /\ pc = "for"
  /\ i = n
  /\ n0 = 0
  /\ \E x \in Nodes : LeftUnresolved(x)
  /\ \E x \in Nodes : ~LeftUnresolved(x)

\* a bound on the number of steps the loop of lines 168-188 can still take
Rank ==
  CASE pc = "while" -> IF del0 = 0 THEN 1 ELSE (n0 + 1) * (n + 3)
    [] pc = "for" -> (n0 + 1) * (n + 3) - 1 - i
    [] OTHER -> 0

\* the loop terminates: while it runs a step can always be taken, and every
\* step lowers Rank, which is a natural number
LoopTerminates ==
  /\ [](pc \in {"while", "for"} => ENABLED Next)
  /\ [](Rank \in Nat)
  /\ [][(pc \in {"while", "for"}) => Rank' < Rank]_vars

\* C5 as stated: the loop terminates on every input, and it stops as soon as
\* the count of unresolved nodes reaches zero or a pass leaves it unchanged:
\* no pass is run with the count at zero.
C5_StopsAtZero ==
  /\ LoopTerminates
  /\ [](pc = "for" => n0 > 0)

\* C5 as amended: the loop terminates on every input.  n0 is the count of
\* unresolved nodes at the start of each pass; the loop is left exactly when
\* the last pass left that count unchanged, which after a pass that brought
\* the count to zero takes one more pass; the only other end is the error of
\* the scan, raised when no node at all is resolved.
C5_Terminates ==
  /\ LoopTerminates
  /\ [](pc = "for" /\ i = 0 => n0 = CountNone(y))
  /\ [][pc = "for" /\ pc' = "while" => del0' = n0 - CountNone(y)]_vars
  /\ [][pc = "while" => (pc' = "done" <=> del0 = 0)]_vars
  /\ [][pc' = "error" => (pc = "for" /\ Resolved = {})]_vars

\* a pass is running although the count of unresolved nodes was already zero
\* when it started
C5_Witness ==
  /\ pc = "for"
  /\ n0 = 0

====
